---- MODULE Spec2Model ----
(***************************************************************************)
(* Model of QuoteEngine/ingestors.py: the QuoteModel record, the           *)
(* IngestorInterface extension check, the four format strategies           *)
(* (CSVIndexer, DocxIndexer, TxtIndexer, PDFIndexer) and the Ingestor      *)
(* dispatcher.                                                             *)
(*                                                                         *)
(* Python strings are sequences of one-character strings.  A call either   *)
(* returns a list of QuoteModel, returns a str, returns a bool or raises   *)
(* an exception; Result records which.  The format-decoding libraries      *)
(* (csv.reader, docx.Document, pdftotext) are external: the model takes    *)
(* what they deliver as input (world) and models everything the module     *)
(* does with it.                                                           *)
(***************************************************************************)
EXTENDS Integers, Sequences, FiniteSets, TLC

VARIABLES
    op,        \* the method called: "init" before the call, "can_ingest", "parse"
    cls,       \* the class it was called on
    path,      \* its argument
    world,     \* what the file at path holds, as the decoders deliver it
    result,    \* what the call returned or raised
    delegate,  \* the class Ingestor.parse handed the call to
    io         \* the files opened and processes started by the call

vars == <<op, cls, path, world, result, delegate, io>>

(***************************************************************************)
(* Bounds of the enumerated inputs.                                        *)
(***************************************************************************)
MaxTextLen == 5      \* characters of a text file / of pdftotext's output
MaxParas == 2        \* paragraphs of a word document
MaxParaLen == 3      \* characters of one paragraph
MaxCols == 3         \* fields of one CSV row
MaxDataRows == 2     \* CSV rows after the header
MaxStatus == 1       \* exit statuses of pdftotext are 0..MaxStatus

SeqsUpTo(S, n) == UNION {[1..k -> S] : k \in 0..n}

Last(s) == s[Len(s)]

(***************************************************************************)
(* Python string primitives.                                               *)
(***************************************************************************)
\* s.find(c) + 1: the position of the first c in s, 0 when there is none
RECURSIVE Find(_, _)
Find(s, c) ==
    IF s = <<>> THEN 0
    ELSE IF Head(s) = c THEN 1
    ELSE LET r == Find(Tail(s), c) IN IF r = 0 THEN 0 ELSE r + 1

\* s.split(c): the pieces of s between the occurrences of c, never empty
RECURSIVE Split(_, _)
Split(s, c) ==
    LET i == Find(s, c) IN
    IF i = 0 THEN <<s>>
    ELSE <<SubSeq(s, 1, i - 1)>> \o Split(SubSeq(s, i + 1, Len(s)), c)

\* file.readlines(): the lines of s, each keeping its terminating newline
RECURSIVE ReadLines(_)
ReadLines(s) ==
    LET i == Find(s, "\n") IN
    IF s = <<>> THEN <<>>
    ELSE IF i = 0 THEN <<s>>
    ELSE <<SubSeq(s, 1, i)>> \o ReadLines(SubSeq(s, i + 1, Len(s)))

(***************************************************************************)
(* Results of a call.                                                      *)
(***************************************************************************)
NoResult == [tag |-> "none", records |-> <<>>, text |-> "", flag |-> FALSE]
RetList(rs) == [tag |-> "list", records |-> rs, text |-> "", flag |-> FALSE]
RetStr(s) == [tag |-> "str", records |-> <<>>, text |-> s, flag |-> FALSE]
RetBool(b) == [tag |-> "bool", records |-> <<>>, text |-> "", flag |-> b]
Raise(e) == [tag |-> "raise", records |-> <<>>, text |-> e, flag |-> FALSE]

QuoteModel(body, author) == [body |-> body, author |-> author]

(***************************************************************************)
(* IngestorInterface                                                       *)
(***************************************************************************)
csv == <<"c", "s", "v">>
docx == <<"d", "o", "c", "x">>
pdf == <<"p", "d", "f">>
txt == <<"t", "x", "t">>

Variants == {"CSVIndexer", "DocxIndexer", "TxtIndexer", "PDFIndexer"}

\* cls.FILE_EXTENSIONS: no subclass overrides the attribute, so every class
\* reads the list of IngestorInterface
FILE_EXTENSIONS(c) == <<csv, docx, pdf, txt>>

InList(x, l) == \E i \in 1..Len(l) : l[i] = x

can_ingest(c, p) ==
    LET file_extension == Last(Split(p, ".")) IN
    InList(file_extension, FILE_EXTENSIONS(c))

NotAllowed == "File type not allowed / supported"

(***************************************************************************)
(* State machine: one action per public call.                              *)
(***************************************************************************)
Paths ==
    { <<"f", ".">> \o csv, <<"f", ".">> \o docx, <<"f", ".">> \o pdf,
      <<"f", ".">> \o txt, <<"q", ".", "x", "l", "s", "x">>,
      <<"a", ".", "b", ".">> \o txt, <<"f", ".">> \o txt \o <<"x">>,
      <<"f", ".">>, <<"f">>, txt, <<".">> \o pdf, <<"f", ".", "c", "s">> }

World0 ==
    [text |-> <<>>, rows |-> <<>>, paragraphs |-> <<>>,
     proc |-> [started |-> TRUE, status |-> 0, stdout |-> <<>>]]

(***************************************************************************)
(* CSVIndexer                                                              *)
(***************************************************************************)
body == <<"b", "o", "d", "y">>
author == <<"a", "u", "t", "h", "o", "r">>

\* list.index(x) as a one-based position
list_index_one_based(l, x) ==
    CHOOSE i \in 1..Len(l) : l[i] = x /\ \A j \in 1..(i - 1) : l[j] # x

\* list.index(x) of a list that holds x: the zero-based first position
list_index(l, x) ==
    (CHOOSE i \in 1..Len(l) : l[i] = x /\ \A j \in 1..(i - 1) : l[j] # x) - 1

\* the loop "for record in reader" from the k-th row on
RECURSIVE CSVLoop(_, _, _, _, _)
CSVLoop(rows, k, body_index, author_index, quote_model_objects) ==
    IF k > Len(rows) THEN RetList(quote_model_objects)
    ELSE LET record == rows[k] IN
         IF body_index >= Len(record) \/ author_index >= Len(record)
         THEN Raise("IndexError")
         ELSE CSVLoop(rows, k + 1, body_index, author_index,
                      Append(quote_model_objects,
                             QuoteModel(record[body_index + 1],
                                        record[author_index + 1])))

\* the body of "with open(path) as csv_file", rows being what csv.reader yields
CSVRead(rows) ==
    IF rows = <<>> THEN Raise("StopIteration")
    ELSE LET header == rows[1] IN
         IF ~InList(body, header) \/ ~InList(author, header)
         THEN Raise("ValueError")
         ELSE CSVLoop(rows, 2, list_index(header, body),
                      list_index(header, author), <<>>)

CSVIndexer_parse(p, w) ==
    IF ~can_ingest("CSVIndexer", p)
    THEN [ret |-> RetStr(NotAllowed), io |-> {}]
    ELSE [ret |-> CSVRead(w.rows), io |-> {"open"}]

(***************************************************************************)
(* DocxIndexer                                                             *)
(***************************************************************************)
\* the loop "for quote in document.paragraphs" from the k-th paragraph on
RECURSIVE DocxLoop(_, _, _)
DocxLoop(paragraphs, k, quote_model_objects) ==
    IF k > Len(paragraphs) THEN RetList(quote_model_objects)
    ELSE LET quote == paragraphs[k]
             parts == Split(quote, "-")
         IN IF quote = <<>> THEN DocxLoop(paragraphs, k + 1, quote_model_objects)
            ELSE IF Len(parts) < 2 THEN Raise("IndexError")
            ELSE DocxLoop(paragraphs, k + 1,
                          Append(quote_model_objects,
                                 QuoteModel(parts[1], parts[2])))

DocxIndexer_parse(p, w) ==
    IF ~can_ingest("DocxIndexer", p)
    THEN [ret |-> RetStr(NotAllowed), io |-> {}]
    ELSE [ret |-> DocxLoop(w.paragraphs, 1, <<>>), io |-> {"docx.Document"}]

(***************************************************************************)
(* TxtIndexer                                                              *)
(***************************************************************************)
\* the loop "for line in reader" from the k-th line on
RECURSIVE TxtLoop(_, _, _)
TxtLoop(reader, k, quote_model_objects) ==
    IF k > Len(reader) THEN RetList(quote_model_objects)
    ELSE LET line == reader[k]
             parts == Split(line, "-")
         IN IF Len(parts) < 2 THEN Raise("IndexError")
            ELSE TxtLoop(reader, k + 1,
                         Append(quote_model_objects,
                                QuoteModel(parts[1], parts[2])))

TxtIndexer_parse(p, w) ==
    IF ~can_ingest("TxtIndexer", p)
    THEN [ret |-> RetStr(NotAllowed), io |-> {}]
    ELSE [ret |-> TxtLoop(ReadLines(w.text), 1, <<>>), io |-> {"open"}]

(***************************************************************************)
(* PDFIndexer                                                              *)
(***************************************************************************)
\* the loop "for line in contents" from the k-th line on
RECURSIVE PDFLoop(_, _, _)
PDFLoop(contents, k, quote_model_objects) ==
    IF k > Len(contents) THEN RetList(quote_model_objects)
    ELSE LET line == Split(contents[k], "-") IN
         IF Len(line) # 2 THEN Raise("ValueError")
         ELSE PDFLoop(contents, k + 1,
                      Append(quote_model_objects, QuoteModel(line[1], line[2])))

\* Popen raises when pdftotext cannot be started; its exit status is never read
PDFIndexer_parse(p, w) ==
    IF ~can_ingest("PDFIndexer", p)
    THEN [ret |-> RetStr(NotAllowed), io |-> {}]
    ELSE IF ~w.proc.started
    THEN [ret |-> Raise("FileNotFoundError"), io |-> {"Popen"}]
    ELSE [ret |-> PDFLoop(Split(w.proc.stdout, "\n"), 1, <<>>), io |-> {"Popen"}]

(***************************************************************************)
(* Ingestor                                                                *)
(***************************************************************************)
\* IngestorInterface.__subclasses__(), in the order the classes are defined
Subclasses == <<"CSVIndexer", "DocxIndexer", "TxtIndexer", "PDFIndexer", "Ingestor">>

\* next((c for c in class_base.__subclasses__()
\*       if file_extension in c.FILE_EXTENSIONS), None)
SelectParser(file_extension) ==
    LET hits == {i \in 1..Len(Subclasses) :
                    InList(file_extension, FILE_EXTENSIONS(Subclasses[i]))}
    IN IF hits = {} THEN "None"
       ELSE Subclasses[CHOOSE i \in hits : \A j \in hits : i <= j]

\* parser.parse(path); None has no parse, Ingestor would call itself again
VariantParse(c, p, w) ==
    CASE c = "CSVIndexer" -> CSVIndexer_parse(p, w)
      [] c = "DocxIndexer" -> DocxIndexer_parse(p, w)
      [] c = "TxtIndexer" -> TxtIndexer_parse(p, w)
      [] c = "PDFIndexer" -> PDFIndexer_parse(p, w)
      [] c = "Ingestor" -> [ret |-> Raise("RecursionError"), io |-> {}]
      [] OTHER -> [ret |-> Raise("AttributeError"), io |-> {}]

Ingestor_can_ingest(p) ==
    LET file_extension == Last(Split(p, ".")) IN
    InList(file_extension, FILE_EXTENSIONS("Ingestor"))

NotSupported == "File extension not allowed / not supported"

\* the call made, with the class it was handed to
Ingestor_parse(p, w) ==
    LET file_extension == Last(Split(p, "."))
        condition == InList(file_extension, FILE_EXTENSIONS("Ingestor"))
        parser == SelectParser(file_extension)
    IN IF ~condition
       THEN [ret |-> RetStr(NotSupported), io |-> {}, parser |-> "none"]
       ELSE [ret |-> VariantParse(parser, p, w).ret,
             io |-> VariantParse(parser, p, w).io, parser |-> parser]

(***************************************************************************)
(* Inputs.                                                                 *)
(***************************************************************************)
TextAlphabet == {"a", "-", " ", "\n"}
ParaAlphabet == {"a", "-", " "}
Texts == SeqsUpTo(TextAlphabet, MaxTextLen)
Paragraphs == SeqsUpTo(SeqsUpTo(ParaAlphabet, MaxParaLen), MaxParas)

\* CSV files: any header over three column names; the field of data row i at
\* column j is Cell(i, j), so that every field of a file is distinguishable
HeaderNames == {body, author, <<"i", "d">>}
Cell(i, j) == <<ToString(i), ToString(j)>>
DataRow(i, n) == [j \in 1..n |-> Cell(i, j)]
CsvFiles ==
    {<<>>} \cup
    { <<h>> \o [i \in 1..Len(ls) |-> DataRow(i, ls[i])] :
        h \in SeqsUpTo(HeaderNames, MaxCols),
        ls \in SeqsUpTo(0..MaxCols, MaxDataRows) }

Procs ==
    [started : {TRUE}, status : 0..MaxStatus, stdout : Texts]
    \cup {[started |-> FALSE, status |-> 0, stdout |-> <<>>]}

TextWorlds == {[World0 EXCEPT !.text = t] : t \in Texts}
DocxWorlds == {[World0 EXCEPT !.paragraphs = ps] : ps \in Paragraphs}
CsvWorlds == {[World0 EXCEPT !.rows = rs] : rs \in CsvFiles}
PdfWorlds == {[World0 EXCEPT !.proc = pr] : pr \in Procs}
Worlds == TextWorlds \cup DocxWorlds \cup CsvWorlds \cup PdfWorlds

(***************************************************************************)
(* State machine.  The classes keep no state between calls (classmethods,  *)
(* no attribute is ever assigned), so a behaviour is one call on inputs    *)
(* chosen by the caller.                                                   *)
(***************************************************************************)
Init ==
    /\ op = "init"
    /\ cls = "none"
    /\ path = <<>>
    /\ world = World0
    /\ result = NoResult
    /\ delegate = "none"
    /\ io = {}

Call(name, c, p, w, out, d) ==
    /\ op' = name
    /\ cls' = c
    /\ path' = p
    /\ world' = w
    /\ result' = out.ret
    /\ io' = out.io
    /\ delegate' = d

NoIo(r) == [ret |-> r, io |-> {}]

IngestorCanIngest ==
    /\ op = "init"
    /\ \E p \in Paths :
        Call("can_ingest", "Ingestor", p, World0,
             NoIo(RetBool(Ingestor_can_ingest(p))), "none")

VariantCanIngest ==
    /\ op = "init"
    /\ \E p \in Paths, c \in Variants :
        Call("can_ingest", c, p, World0, NoIo(RetBool(can_ingest(c, p))), "none")

CSVParse ==
    /\ op = "init"
    /\ \E p \in Paths, w \in CsvWorlds :
        Call("parse", "CSVIndexer", p, w, CSVIndexer_parse(p, w), "none")

DocxParse ==
    /\ op = "init"
    /\ \E p \in Paths, w \in DocxWorlds :
        Call("parse", "DocxIndexer", p, w, DocxIndexer_parse(p, w), "none")

TxtParse ==
    /\ op = "init"
    /\ \E p \in Paths, w \in TextWorlds :
        Call("parse", "TxtIndexer", p, w, TxtIndexer_parse(p, w), "none")

PDFParse ==
    /\ op = "init"
    /\ \E p \in Paths, w \in PdfWorlds :
        Call("parse", "PDFIndexer", p, w, PDFIndexer_parse(p, w), "none")

IngestorParse ==
    /\ op = "init"
    /\ \E p \in Paths, w \in Worlds :
        LET out == Ingestor_parse(p, w) IN
        Call("parse", "Ingestor", p, w, out, out.parser)

Next ==
    \/ IngestorCanIngest
    \/ VariantCanIngest
    \/ CSVParse
    \/ DocxParse
    \/ TxtParse
    \/ PDFParse
    \/ IngestorParse

Spec == Init /\ [][Next]_vars

\* the CSV strategy alone
SpecCSV == Init /\ [][CSVParse]_vars

(***************************************************************************)
(* Vocabulary of the properties.                                           *)
(***************************************************************************)
Supported == {csv, docx, pdf, txt}

HasDot(p) == \E i \in 1..Len(p) : p[i] = "."

FinalDot(p) == CHOOSE i \in 1..Len(p) : p[i] = "." /\ \A j \in (i + 1)..Len(p) : p[j] # "."

\* the substring after the final '.', empty for a path without one
Extension(p) == IF HasDot(p) THEN SubSeq(p, FinalDot(p) + 1, Len(p)) ELSE <<>>

\* the format variant bound to an extension
BoundVariant(e) ==
    CASE e = csv -> "CSVIndexer"
      [] e = docx -> "DocxIndexer"
      [] e = pdf -> "PDFIndexer"
      [] e = txt -> "TxtIndexer"
      [] OTHER -> "none"

DeclaredExtension(c) ==
    CASE c = "CSVIndexer" -> csv
      [] c = "DocxIndexer" -> docx
      [] c = "PDFIndexer" -> pdf
      [] c = "TxtIndexer" -> txt

Whitespace == {" ", "\n"}

RECURSIVE LStrip(_)
LStrip(s) == IF s # <<>> /\ Head(s) \in Whitespace THEN LStrip(Tail(s)) ELSE s

RECURSIVE RStrip(_)
RStrip(s) ==
    IF s # <<>> /\ Last(s) \in Whitespace THEN RStrip(SubSeq(s, 1, Len(s) - 1)) ELSE s

Trim(s) == RStrip(LStrip(s))

HasHyphen(u) == \E i \in 1..Len(u) : u[i] = "-"

FirstHyphen(u) == CHOOSE i \in 1..Len(u) : u[i] = "-" /\ \A j \in 1..(i - 1) : u[j] # "-"

BodyOf(u) == Trim(SubSeq(u, 1, FirstHyphen(u) - 1))
AuthorOf(u) == Trim(SubSeq(u, FirstHyphen(u) + 1, Len(u)))

\* a line or paragraph "<body> - <author>" with a body and an author
WellFormed(u) == HasHyphen(u) /\ BodyOf(u) # <<>> /\ AuthorOf(u) # <<>>

\* the text s cut at its newlines, the newlines dropped
RECURSIVE LinesOf(_)
LinesOf(s) ==
    IF ~\E i \in 1..Len(s) : s[i] = "\n" THEN <<s>>
    ELSE LET i == CHOOSE i \in 1..Len(s) : s[i] = "\n" /\ \A j \in 1..(i - 1) : s[j] # "\n"
         IN <<SubSeq(s, 1, i - 1)>> \o LinesOf(SubSeq(s, i + 1, Len(s)))

TextVariants == {"TxtIndexer", "DocxIndexer", "PDFIndexer"}

\* the lines or paragraphs of the source the called text variant reads
Units ==
    CASE cls = "TxtIndexer" -> LinesOf(world.text)
      [] cls = "PDFIndexer" -> LinesOf(world.proc.stdout)
      [] cls = "DocxIndexer" -> world.paragraphs
      [] OTHER -> <<>>

NonEmpty(u) == u # <<>>

\* a parse call on a variant, for a path of its own extension, that got as
\* far as its source
Parsed(c) ==
    /\ op = "parse"
    /\ cls = c
    /\ Extension(path) = DeclaredExtension(c)
    /\ c = "PDFIndexer" => world.proc.started /\ world.proc.status = 0

\* C1: for a path with a supported extension Ingestor.parse hands the call to
\* the variant bound to that extension.
C1_DispatchesToBoundVariant ==
    (op = "parse" /\ cls = "Ingestor" /\ Extension(path) \in Supported)
        => delegate = BoundVariant(Extension(path))

\* C2: for a path whose extension is not supported (such as q.xlsx)
\* Ingestor.parse fails with an UnsupportedFormat error, it does not return a
\* string, and it touches no file.
C2_UnsupportedIsTypedError ==
    (op = "parse" /\ cls = "Ingestor" /\ HasDot(path) /\ Extension(path) \notin Supported)
        => /\ result.tag = "raise"
           /\ result.text = "UnsupportedFormat"
           /\ io = {}

\* C3: Ingestor.can_ingest is true exactly when the substring after the
\* path's final '.' is csv, docx, pdf or txt.
C3_CanIngestIffSupportedExtension ==
    (op = "can_ingest" /\ cls = "Ingestor")
        => /\ result.tag = "bool"
           /\ result.flag <=> (HasDot(path) /\ Extension(path) \in Supported)
           /\ io = {}

\* C4: a text, document or PDF source of well-formed lines yields one record
\* per line: the trimmed text before the first hyphen and the trimmed whole
\* text after it.
C4_SplitAtFirstHyphenTrimmed ==
    (/\ \E c \in TextVariants : Parsed(c)
     /\ \A i \in 1..Len(Units) : WellFormed(Units[i]))
        => /\ result.tag = "list"
           /\ result.records =
                [i \in 1..Len(Units) |-> QuoteModel(BodyOf(Units[i]), AuthorOf(Units[i]))]

\* a CSV source with the two columns and a data row too short for one of them
CsvShortRow(rows) ==
    /\ rows # <<>>
    /\ \E b, a \in 1..Len(rows[1]) :
        /\ rows[1][b] = body
        /\ rows[1][a] = author
        /\ \E k \in 2..Len(rows) : Len(rows[k]) < b \/ Len(rows[k]) < a

Malformed ==
    \/ /\ \E c \in TextVariants : Parsed(c)
       /\ \E i \in 1..Len(Units) : NonEmpty(Units[i]) /\ ~HasHyphen(Units[i])
    \/ Parsed("CSVIndexer") /\ CsvShortRow(world.rows)

\* C5: a malformed row, line or paragraph makes the whole parse fail with a
\* MalformedRecord error.
C5_MalformedIsTypedError ==
    Malformed => result.tag = "raise" /\ result.text = "MalformedRecord"

\* the lines or paragraphs as the called text variant iterates over them
LoopUnits ==
    CASE cls = "TxtIndexer" -> ReadLines(world.text)
      [] cls = "PDFIndexer" -> Split(world.proc.stdout, "\n")
      [] cls = "DocxIndexer" -> world.paragraphs

\* an empty line (with or without its newline) or an empty paragraph
NotBlank(u) == u # <<>> /\ u # <<"\n">>

\* what the called text variant makes of a sequence of lines or paragraphs
ParseUnits(us) ==
    CASE cls = "TxtIndexer" -> TxtLoop(us, 1, <<>>)
      [] cls = "PDFIndexer" -> PDFLoop(us, 1, <<>>)
      [] cls = "DocxIndexer" -> DocxLoop(us, 1, <<>>)

\* C6: empty lines and paragraphs contribute nothing and raise nothing: the
\* result is that of the source without them.
C6_BlankLinesSkipped ==
    (\E c \in TextVariants : Parsed(c))
        => result = ParseUnits(SelectSeq(LoopUnits, NotBlank))

\* the first column of the header named x
Column(header, x) ==
    CHOOSE j \in 1..Len(header) : header[j] = x /\ \A i \in 1..Len(header) : header[i] = x => j <= i

\* a header with both columns and data rows that reach both
ValidCsv(rows) ==
    /\ rows # <<>>
    /\ \E j \in 1..Len(rows[1]) : rows[1][j] = body
    /\ \E j \in 1..Len(rows[1]) : rows[1][j] = author
    /\ \A k \in 2..Len(rows) :
        Len(rows[k]) >= Column(rows[1], body) /\ Len(rows[k]) >= Column(rows[1], author)

\* C7: a valid CSV source of N data rows yields N records in row order, the
\* i-th made of the i-th row's fields in the header's body and author columns.
C7_CsvRecordsMatchRows ==
    (Parsed("CSVIndexer") /\ ValidCsv(world.rows))
        => /\ result.tag = "list"
           /\ Len(result.records) = Len(world.rows) - 1
           /\ \A i \in 1..(Len(world.rows) - 1) :
                /\ result.records[i].body = world.rows[i + 1][Column(world.rows[1], body)]
                /\ result.records[i].author = world.rows[i + 1][Column(world.rows[1], author)]

C7_Witness ==
    /\ Parsed("CSVIndexer")
    /\ ValidCsv(world.rows)
    /\ Len(world.rows) = 3
    /\ Len(world.rows[1]) = 3
    /\ Column(world.rows[1], author) < Column(world.rows[1], body)
    /\ result.tag = "list"
    /\ Len(result.records) = 2

\* C8: when pdftotext cannot be started or exits with a non-zero status the
\* PDF parse fails, whatever the process wrote: it raises an error (the
\* error's name is left open here) and returns no record list.
C8_ExtractionFailureIsError ==
    (/\ op = "parse"
     /\ cls = "PDFIndexer"
     /\ Extension(path) = pdf
     /\ ~world.proc.started \/ world.proc.status # 0)
        => result.tag = "raise"

Clean(s) == s # <<>> /\ Trim(s) = s

\* C9: every record of a returned list has a non-empty body and author
\* without leading or trailing whitespace.
C9_RecordsNonEmptyTrimmed ==
    ((\E c \in Variants : Parsed(c)) /\ result.tag = "list")
        => \A i \in 1..Len(result.records) :
            Clean(result.records[i].body) /\ Clean(result.records[i].author)

\* C10: for a path with an extension, a variant's can_ingest is true exactly
\* when the extension is its own, and its parse on any other extension fails
\* with UnsupportedFormat, reading nothing.
C10_VariantAcceptsOnlyOwnExtension ==
    /\ (op = "can_ingest" /\ cls \in Variants /\ HasDot(path))
        => (result.flag <=> Extension(path) = DeclaredExtension(cls))
    /\ (op = "parse" /\ cls \in Variants /\ HasDot(path)
            /\ Extension(path) # DeclaredExtension(cls))
        => /\ result.tag = "raise"
           /\ result.text = "UnsupportedFormat"
           /\ io = {}

====
